---- MODULE Spec2Model ----
(***************************************************************************)
(* State-machine model of the chat client in src/src/App.tsx: the chat     *)
(* session (message log, input buffer, loading flag), the request          *)
(* dispatcher (submitMessage and the continuations of its two awaits),     *)
(* the document selector and the mode switch; and of the theme store of    *)
(* src/src/main.tsx (ThemeProvider).                                       *)
(*                                                                         *)
(* Text is modelled as a sequence of tokens: what the user types is one    *)
(* token per character, a fixed literal of the code is a single token.     *)
(* Every event handler runs to completion on the single UI thread, so one  *)
(* handler (or one continuation of an await) is one action.                *)
(***************************************************************************)
EXTENDS Integers, Sequences, FiniteSets, TLC

VARIABLES
    apiBase,          \* import.meta.env.VITE_API_BASE_URL ?? ''
    chatEndpoint,     \* import.meta.env.VITE_CHAT_ENDPOINT ?? ''
    mode,             \* useState<Mode>
    messages,         \* useState<ChatMessage[]>
    inputValue,       \* useState('')
    isLoading,        \* useState(false)
    isDrawerOpen,     \* useState(false)
    selectedDocs,     \* useState<SelectedDocument[]>
    selectedMenuOpen, \* useState(false)
    toast,            \* useState<string | null>
    calls,            \* the invocations of submitMessage that passed the guard
    nextId,           \* the next value generateId() returns
    trace,            \* history: the appends and network calls, in code order
    epoch,            \* history: the number of mode switches so far
    last,             \* history: the handler that ran last, and what it saw
    docOps,           \* history: the number of document operations so far
    theme,            \* useState<Theme>(getPreferredTheme)
    saved,            \* window.localStorage.getItem(storageKey)
    systemDark,       \* matchMedia('(prefers-color-scheme: dark)').matches
    themeLog          \* history: the start and the events of the theme store

vars == <<apiBase, chatEndpoint, mode, messages, inputValue, isLoading,
          isDrawerOpen, selectedDocs, selectedMenuOpen, toast, calls, nextId,
          trace, epoch, last, docOps, theme, saved, systemDark, themeLog>>

----------------------------------------------------------------------------
(* Bounds of the model *)

\* submissions that pass the guard of submitMessage
MaxSubmits == 2
\* mode switches
MaxSwitches == 2
\* documents of the library the selector specification toggles
NumDocs == 11
\* document operations in the selector specification
MaxDocOps == 2
\* events of the theme store
MaxThemeOps == 3

----------------------------------------------------------------------------
(* Values *)

NULL == "null"

Modes == {"gpt", "rag"}

\* White space as String.prototype.trim() sees it.
WhiteSpace == {" ", "\n", "\t"}

\* What the user may have typed into the textarea.
Inputs == { <<>>, <<" ", "\t">>, <<" ", "h", "\n">> }

BaseUrls == {"", "http://x"}
ChatPaths == {"", "/api/chat"}

\* HTTP statuses the server may answer with.
Statuses == {200, 500}

\* A parsed body: the JSON value null, or an object whose reply field is
\* absent (<<>>) or present (<<text>>).
ReplyTexts == { <<>>, <<"o", "k">> }
Bodies ==
    { [isNull |-> TRUE, reply |-> <<>>], [isNull |-> FALSE, reply |-> <<>>] }
    \cup { [isNull |-> FALSE, reply |-> <<t>>] : t \in ReplyTexts }

\* What fetch may reject with, as the tests the catch block applies to it.
FetchErrors ==
    { [typeError |-> FALSE, dns |-> FALSE, failedToFetch |-> FALSE],
      [typeError |-> TRUE, dns |-> TRUE, failedToFetch |-> FALSE],
      [typeError |-> TRUE, dns |-> FALSE, failedToFetch |-> TRUE],
      [typeError |-> TRUE, dns |-> FALSE, failedToFetch |-> FALSE] }

\* The documents of the library, and those the chat specification toggles.
DocIds == 1..NumDocs
ChatDocIds == {1}

ReasonNotConfigured == <<"API address is not set">>
ReasonInvalid == <<"API returned an invalid response">>
ReasonTimeout == <<"API response timed out">>
ReasonDns == <<"API address not found">>
ReasonConnect == <<"could not connect to the API server">>
ReasonHttp(status) == <<"API server returned HTTP", ToString(status)>>
UrlNotSet == "URL is not set"
ToastLimit == "context limit: 10 documents"

\* selectedDocs.length >= 10
DocLimit == 10

----------------------------------------------------------------------------
(* Pure functions *)

RECURSIVE TrimStart(_)
TrimStart(s) ==
    IF s # <<>> /\ Head(s) \in WhiteSpace THEN TrimStart(Tail(s)) ELSE s

RECURSIVE TrimEnd(_)
TrimEnd(s) ==
    IF s # <<>> /\ s[Len(s)] \in WhiteSpace
    THEN TrimEnd(SubSeq(s, 1, Len(s) - 1))
    ELSE s

Trim(s) == TrimEnd(TrimStart(s))

canSend == Len(Trim(inputValue)) > 0 /\ ~isLoading

\* requestUrl that tests the base address only.
requestUrlBaseOnly ==
    IF apiBase = "" THEN NULL ELSE apiBase \o chatEndpoint

requestUrl ==
    IF apiBase = "" \/ chatEndpoint = "" THEN NULL ELSE apiBase \o chatEndpoint

\* createErrorMessage without the meta field.
createErrorMessageNoMeta(id, reason, requestUrlValue, from) ==
    [id |-> id, role |-> "error", content |-> reason, meta |-> NULL,
     epoch |-> from]

\* The id is the value generateId() returns; the last field is history, the
\* mode epoch of the submission the message answers.
createErrorMessage(id, reason, requestUrlValue, from) ==
    [id |-> id, role |-> "error", content |-> reason,
     meta |-> IF requestUrlValue = NULL THEN UrlNotSet ELSE requestUrlValue,
     epoch |-> from]

\* response.ok
Ok(status) == status \in 200..299

\* FilterOut that cuts the list at the document: the document and all the
\* documents selected after it are dropped.
RECURSIVE FilterOutTruncating(_, _)
FilterOutTruncating(docs, id) ==
    IF docs = <<>> THEN <<>>
    ELSE IF Head(docs).id = id THEN <<>>
    ELSE <<Head(docs)>> \o FilterOutTruncating(Tail(docs), id)

\* prev.filter((item) => item.id !== id)
RECURSIVE FilterOut(_, _)
FilterOut(docs, id) ==
    IF docs = <<>> THEN <<>>
    ELSE IF Head(docs).id = id THEN FilterOut(Tail(docs), id)
    ELSE <<Head(docs)>> \o FilterOut(Tail(docs), id)

\* selectedDocs.some((item) => item.id === id)
IsSelected(docs, id) == \E i \in 1..Len(docs) : docs[i].id = id

\* nextMessages.map(({ role, content }) => ({ role, content }))
RoleContent(msgs) ==
    [i \in 1..Len(msgs) |-> [role |-> msgs[i].role, content |-> msgs[i].content]]

\* selectedDocs.map((doc) => doc.id)
DocIdsOf(docs) == [i \in 1..Len(docs) |-> docs[i].id]

\* The reason the catch block of submitMessage gives a rejection of fetch:
\* abort is (err instanceof DOMException && err.name === 'AbortError').
CatchReason(abort, err) ==
    IF abort THEN ReasonTimeout
    ELSE IF err.typeError
         THEN IF err.dns THEN ReasonDns
              ELSE IF err.failedToFetch THEN ReasonConnect
              ELSE ReasonConnect
         ELSE ReasonConnect

----------------------------------------------------------------------------
(* History *)

\* The handler that runs, the submission it belongs to, its argument, and
\* what it saw when it started.
Seen(op, sub, arg) ==
    [op |-> op, sub |-> sub, arg |-> arg, wasLoading |-> isLoading,
     hadLog |-> messages # <<>>, hadDocs |-> selectedDocs # <<>>]

\* What handleDocToggle saw: the document, and the ids that were selected.
SeenToggle(doc) ==
    Seen("toggle", 0, doc)
        @@ [docs |-> { selectedDocs[i].id : i \in 1..Len(selectedDocs) }]

\* A handler of the composer, the context bar or the drawer that no property
\* looks at.
SeenUi == [op |-> "ui", sub |-> 0, arg |-> 0, wasLoading |-> FALSE,
           hadLog |-> FALSE, hadDocs |-> FALSE]

AppendEvent(sub, m) == [ev |-> "append", sub |-> sub, role |-> m.role, id |-> m.id]
FetchEvent(sub) == [ev |-> "fetch", sub |-> sub, role |-> "-", id |-> 0]

\* The invocations of submitMessage suspended at an await.
InFlight == { s \in 1..Len(calls) : calls[s].pc # "done" }

chatVars == <<messages, inputValue, isLoading, calls, nextId, trace>>
uiVars == <<isDrawerOpen, selectedMenuOpen, toast>>
themeVars == <<theme, saved, systemDark, themeLog>>

\* What no handler of App writes: the build-time configuration and the state
\* of the theme store.
envVars == <<apiBase, chatEndpoint, themeVars>>

----------------------------------------------------------------------------
(* The theme store *)

Themes == {"light", "dark"}

\* What the storage may hold under storageKey when the page loads: nothing,
\* a theme, or anything else.
StoredValues == {NULL, "light", "dark", "auto"}

getPreferredTheme(stored, prefersDark) ==
    IF stored = "light" \/ stored = "dark" THEN stored
    ELSE IF prefersDark THEN "dark" ELSE "light"

ThemeEvent(ev, dark) == [ev |-> ev, stored |-> saved, dark |-> dark]

\* ThemeProvider once mounted: the state is what getPreferredTheme returned,
\* and the effect of [theme] has stored it before the effect that follows
\* it subscribes handleChange.
ThemeStart(stored, prefersDark) ==
    /\ theme = getPreferredTheme(stored, prefersDark)
    /\ saved = theme
    /\ systemDark = prefersDark
    /\ themeLog = <<[ev |-> "start", stored |-> stored, dark |-> prefersDark]>>

\* toggleTheme, then the effect of [theme].
toggleTheme ==
    /\ Len(themeLog) <= MaxThemeOps
    /\ theme' = IF theme = "light" THEN "dark" ELSE "light"
    /\ saved' = theme'
    /\ themeLog' = Append(themeLog, ThemeEvent("toggle", systemDark))
    /\ UNCHANGED <<apiBase, chatEndpoint, mode, messages, inputValue,
                   isLoading, isDrawerOpen, selectedDocs, selectedMenuOpen,
                   toast, calls, nextId, trace, epoch, last, docOps,
                   systemDark>>

\* The system preference changes and the media query delivers the change to
\* handleChange; when it sets the theme, the effect of [theme] follows.
handleChange(matches) ==
    /\ Len(themeLog) <= MaxThemeOps
    /\ matches # systemDark
    /\ systemDark' = matches
    /\ IF saved = "light" \/ saved = "dark"
       THEN UNCHANGED <<theme, saved>>
       ELSE /\ theme' = IF matches THEN "dark" ELSE "light"
            /\ saved' = theme'
    /\ themeLog' = Append(themeLog, ThemeEvent("system", matches))
    /\ UNCHANGED <<apiBase, chatEndpoint, mode, messages, inputValue,
                   isLoading, isDrawerOpen, selectedDocs, selectedMenuOpen,
                   toast, calls, nextId, trace, epoch, last, docOps>>

----------------------------------------------------------------------------
(* Initial state: App() after its first render *)

Init ==
    /\ apiBase \in BaseUrls
    /\ chatEndpoint \in ChatPaths
    /\ mode = "gpt"
    /\ messages = <<>>
    /\ inputValue = <<>>
    /\ isLoading = FALSE
    /\ isDrawerOpen = FALSE
    /\ selectedDocs = <<>>
    /\ selectedMenuOpen = FALSE
    /\ toast = NULL
    /\ calls = <<>>
    /\ nextId = 1
    /\ trace = <<>>
    /\ epoch = 0
    /\ last = [op |-> "init", sub |-> 0, arg |-> 0, wasLoading |-> FALSE,
               hadLog |-> FALSE, hadDocs |-> FALSE]
    /\ docOps = 0
    /\ ThemeStart(NULL, FALSE)

----------------------------------------------------------------------------
(* The composer *)

\* onChange of the textarea, which is disabled while isLoading.
SetInputValue(v) ==
    /\ ~isLoading
    /\ v # inputValue
    /\ inputValue' = v
    /\ last' = SeenUi
    /\ UNCHANGED <<envVars, mode, messages, isLoading, uiVars, selectedDocs,
                   calls, nextId, trace, epoch, docOps>>

\* SubmitIgnored that empties the input box.
SubmitIgnoredClearsInput ==
    /\ ~canSend
    /\ inputValue' = <<>>
    /\ last' = Seen("submitIgnored", 0, inputValue)
    /\ UNCHANGED <<envVars, mode, messages, isLoading, calls, nextId, trace,
                   uiVars, selectedDocs, epoch, docOps>>

\* submitMessage when its guard fails: if (!canSend) return.
SubmitIgnored ==
    /\ ~canSend
    /\ last' = Seen("submitIgnored", 0, inputValue)
    /\ UNCHANGED <<envVars, mode, chatVars, uiVars, selectedDocs, epoch, docOps>>

\* RequestOf with the selected ids sent newest first.
RequestOfNewestFirst(nextMessages) ==
    [url |-> requestUrl,
     mode |-> mode,
     messages |-> RoleContent(nextMessages),
     selected_documents |->
         IF mode = "rag"
         THEN [i \in 1..Len(selectedDocs) |->
                  selectedDocs[Len(selectedDocs) + 1 - i].id]
         ELSE <<>>,
     stream |-> FALSE]

\* RequestOf that sends the new user message alone, without the log.
RequestOfLastOnly(nextMessages) ==
    [url |-> requestUrl,
     mode |-> mode,
     messages |-> RoleContent(<<nextMessages[Len(nextMessages)]>>),
     selected_documents |->
         IF mode = "rag" THEN DocIdsOf(selectedDocs) ELSE <<>>,
     stream |-> FALSE]

\* The request submitMessage hands to fetch.
RequestOf(nextMessages) ==
    [url |-> requestUrl,
     mode |-> mode,
     messages |-> RoleContent(nextMessages),
     selected_documents |->
         IF mode = "rag" THEN DocIdsOf(selectedDocs) ELSE <<>>,
     stream |-> FALSE]

\* SubmitMessage with the input sent as typed, not trimmed.
SubmitMessageUntrimmed ==
    /\ canSend
    /\ Len(calls) < MaxSubmits
    /\ LET sub == Len(calls) + 1
           userMessage == [id |-> nextId, role |-> "user",
                           content |-> inputValue, meta |-> NULL,
                           epoch |-> epoch]
           nextMessages == Append(messages, userMessage)
           errorMessage ==
               createErrorMessage(nextId + 1, ReasonNotConfigured, requestUrl,
                                  epoch)
       IN  /\ inputValue' = <<>>
           /\ IF requestUrl = NULL
              THEN /\ messages' = Append(nextMessages, errorMessage)
                   /\ isLoading' = FALSE
                   /\ calls' = Append(calls,
                          [pc |-> "done", timer |-> FALSE, request |-> <<>>,
                           epoch |-> 0])
                   /\ trace' = trace \o <<AppendEvent(sub, userMessage),
                                          AppendEvent(sub, errorMessage)>>
                   /\ nextId' = nextId + 2
              ELSE /\ messages' = nextMessages
                   /\ isLoading' = TRUE
                   /\ calls' = Append(calls,
                          [pc |-> "fetch", timer |-> TRUE,
                           request |-> <<RequestOf(nextMessages)>>,
                           epoch |-> epoch])
                   /\ trace' = trace \o <<AppendEvent(sub, userMessage),
                                          FetchEvent(sub)>>
                   /\ nextId' = nextId + 1
    /\ last' = Seen("submit", Len(calls) + 1, inputValue)
    /\ UNCHANGED <<envVars, mode, uiVars, selectedDocs, epoch, docOps>>

\* submitMessage from its guard to its first await (or to its early return
\* when no URL is configured).
SubmitMessage ==
    /\ canSend
    /\ Len(calls) < MaxSubmits
    /\ LET sub == Len(calls) + 1
           userMessage == [id |-> nextId, role |-> "user",
                           content |-> Trim(inputValue), meta |-> NULL,
                           epoch |-> epoch]
           nextMessages == Append(messages, userMessage)
           errorMessage ==
               createErrorMessage(nextId + 1, ReasonNotConfigured, requestUrl,
                                  epoch)
       IN  /\ inputValue' = <<>>
           /\ IF requestUrl = NULL
              THEN /\ messages' = Append(nextMessages, errorMessage)
                   /\ isLoading' = FALSE
                   /\ calls' = Append(calls,
                          [pc |-> "done", timer |-> FALSE, request |-> <<>>,
                           epoch |-> 0])
                   /\ trace' = trace \o <<AppendEvent(sub, userMessage),
                                          AppendEvent(sub, errorMessage)>>
                   /\ nextId' = nextId + 2
              ELSE /\ messages' = nextMessages
                   /\ isLoading' = TRUE
                   /\ calls' = Append(calls,
                          [pc |-> "fetch", timer |-> TRUE,
                           request |-> <<RequestOf(nextMessages)>>,
                           epoch |-> epoch])
                   /\ trace' = trace \o <<AppendEvent(sub, userMessage),
                                          FetchEvent(sub)>>
                   /\ nextId' = nextId + 1
    /\ last' = Seen("submit", Len(calls) + 1, inputValue)
    /\ UNCHANGED <<envVars, mode, uiVars, selectedDocs, epoch, docOps>>

----------------------------------------------------------------------------
(* The continuations of submitMessage *)

\* AppendResponse behind a generation guard: the response of a submission
\* whose user message has left the log is discarded.
AppendResponseGuarded(s, m) ==
    /\ messages' =
         IF \E i \in 1..Len(trace) :
                /\ trace[i].ev = "append" /\ trace[i].sub = s
                /\ trace[i].role = "user"
                /\ \E k \in 1..Len(messages) : messages[k].id = trace[i].id
         THEN Append(messages, m)
         ELSE messages
    /\ trace' = Append(trace, AppendEvent(s, m))
    /\ nextId' = nextId + 1

\* AppendResponse that puts the new message first: [message, ...prev].
AppendResponseNewestFirst(s, m) ==
    /\ messages' = <<m>> \o messages
    /\ trace' = Append(trace, AppendEvent(s, m))
    /\ nextId' = nextId + 1

\* setMessages((prev) => [...prev, message]) of a continuation.
AppendResponse(s, m) ==
    /\ messages' = Append(messages, m)
    /\ trace' = Append(trace, AppendEvent(s, m))
    /\ nextId' = nextId + 1

\* Finally without setIsLoading(false).
FinallyLeavesLoading(s) ==
    /\ calls' = [calls EXCEPT ![s] = [pc |-> "done", timer |-> FALSE,
                                       request |-> <<>>, epoch |-> 0]]
    /\ isLoading' = isLoading

\* finally { window.clearTimeout(timeoutId); setIsLoading(false); }
Finally(s) ==
    /\ calls' = [calls EXCEPT ![s] = [pc |-> "done", timer |-> FALSE,
                                       request |-> <<>>, epoch |-> 0]]
    /\ isLoading' = FALSE

\* FetchResolve with the loading flag reset as soon as the response arrives,
\* before its body is read.
FetchResolveEarlyIdle(s, status) ==
    /\ s \in 1..Len(calls)
    /\ calls[s].pc = "fetch"
    /\ IF ~Ok(status)
       THEN /\ AppendResponse(s,
                   createErrorMessage(nextId, ReasonHttp(status), requestUrl,
                                         calls[s].epoch))
            /\ Finally(s)
       ELSE /\ calls' = [calls EXCEPT ![s].pc = "json"]
            /\ isLoading' = FALSE
            /\ UNCHANGED <<messages, trace, nextId>>
    /\ last' = Seen("fetchResolve", s, status)
    /\ UNCHANGED <<envVars, mode, inputValue, uiVars, selectedDocs, epoch, docOps>>

\* FetchResolve without the test of response.ok: the body of every response
\* is read, whatever its status.
FetchResolveNoStatusCheck(s, status) ==
    /\ s \in 1..Len(calls)
    /\ calls[s].pc = "fetch"
    /\ calls' = [calls EXCEPT ![s].pc = "json"]
    /\ UNCHANGED <<messages, trace, nextId, isLoading>>
    /\ last' = Seen("fetchResolve", s, status)
    /\ UNCHANGED <<envVars, mode, inputValue, uiVars, selectedDocs, epoch, docOps>>

\* fetch resolves with a response: a non-2xx status is reported, a 2xx one
\* goes on to await response.json().
FetchResolve(s, status) ==
    /\ s \in 1..Len(calls)
    /\ calls[s].pc = "fetch"
    /\ IF ~Ok(status)
       THEN /\ AppendResponse(s,
                   createErrorMessage(nextId, ReasonHttp(status), requestUrl,
                                      calls[s].epoch))
            /\ Finally(s)
       ELSE /\ calls' = [calls EXCEPT ![s].pc = "json"]
            /\ UNCHANGED <<messages, trace, nextId, isLoading>>
    /\ last' = Seen("fetchResolve", s, status)
    /\ UNCHANGED <<envVars, mode, inputValue, uiVars, selectedDocs, epoch, docOps>>

\* FetchReject that retries: the failed call is issued once more in place of
\* being reported.
FetchRejectRetry(s, err) ==
    /\ s \in 1..Len(calls)
    /\ calls[s].pc = "fetch"
    /\ IF Cardinality({ i \in 1..Len(trace) :
                          trace[i].ev = "fetch" /\ trace[i].sub = s }) < 2
       THEN /\ trace' = Append(trace, FetchEvent(s))
            /\ UNCHANGED <<messages, nextId, calls, isLoading>>
       ELSE /\ AppendResponse(s,
                   createErrorMessage(nextId, CatchReason(FALSE, err),
                                      requestUrl, calls[s].epoch))
            /\ Finally(s)
    /\ last' = Seen("fetchReject", s, 0)
    /\ UNCHANGED <<envVars, mode, inputValue, uiVars, selectedDocs, epoch, docOps>>

\* fetch rejects with a network-level error: the outer catch block.
FetchReject(s, err) ==
    /\ s \in 1..Len(calls)
    /\ calls[s].pc = "fetch"
    /\ AppendResponse(s,
           createErrorMessage(nextId, CatchReason(FALSE, err), requestUrl,
                                      calls[s].epoch))
    /\ Finally(s)
    /\ last' = Seen("fetchReject", s, 0)
    /\ UNCHANGED <<envVars, mode, inputValue, uiVars, selectedDocs, epoch, docOps>>

\* JsonResolve with the test of the reply inverted.
JsonResolveInverted(s, data) ==
    /\ s \in 1..Len(calls)
    /\ calls[s].pc = "json"
    /\ LET replyText == IF data.isNull \/ data.reply = <<>>
                        THEN <<>> ELSE data.reply[1]
           missing == data.isNull \/ data.reply = <<>> \/ replyText = <<>>
       IN  IF ~missing
           THEN AppendResponse(s,
                    createErrorMessage(nextId, ReasonInvalid, requestUrl,
                                       calls[s].epoch))
           ELSE AppendResponse(s,
                    [id |-> nextId, role |-> "assistant",
                     content |-> replyText, meta |-> NULL,
                     epoch |-> calls[s].epoch])
    /\ Finally(s)
    /\ last' = Seen("jsonResolve", s, data)
    /\ UNCHANGED <<envVars, mode, inputValue, uiVars, selectedDocs, epoch, docOps>>

\* JsonResolve without the return that follows the report of a missing
\* reply: the assistant message is appended as well.
JsonResolveNoReturn(s, data) ==
    /\ s \in 1..Len(calls)
    /\ calls[s].pc = "json"
    /\ LET replyText == IF data.isNull \/ data.reply = <<>>
                        THEN <<>> ELSE data.reply[1]
           missing == data.isNull \/ data.reply = <<>> \/ replyText = <<>>
           errorMessage == createErrorMessage(nextId, ReasonInvalid,
                                              requestUrl, calls[s].epoch)
           assistantMessage ==
               [id |-> IF missing THEN nextId + 1 ELSE nextId,
                role |-> "assistant", content |-> replyText, meta |-> NULL,
                epoch |-> calls[s].epoch]
       IN  IF missing
           THEN /\ messages' = messages \o <<errorMessage, assistantMessage>>
                /\ trace' = trace \o <<AppendEvent(s, errorMessage),
                                       AppendEvent(s, assistantMessage)>>
                /\ nextId' = nextId + 2
           ELSE AppendResponse(s, assistantMessage)
    /\ Finally(s)
    /\ last' = Seen("jsonResolve", s, data)
    /\ UNCHANGED <<envVars, mode, inputValue, uiVars, selectedDocs, epoch, docOps>>

\* response.json() resolves with the parsed body.
JsonResolve(s, data) ==
    /\ s \in 1..Len(calls)
    /\ calls[s].pc = "json"
    /\ LET replyText == IF data.isNull \/ data.reply = <<>>
                        THEN <<>> ELSE data.reply[1]
           missing == data.isNull \/ data.reply = <<>> \/ replyText = <<>>
       IN  IF missing
           THEN AppendResponse(s,
                    createErrorMessage(nextId, ReasonInvalid, requestUrl,
                                      calls[s].epoch))
           ELSE AppendResponse(s,
                    [id |-> nextId, role |-> "assistant",
                     content |-> replyText, meta |-> NULL,
                     epoch |-> calls[s].epoch])
    /\ Finally(s)
    /\ last' = Seen("jsonResolve", s, data)
    /\ UNCHANGED <<envVars, mode, inputValue, uiVars, selectedDocs, epoch, docOps>>

\* JsonReject without the inner try/catch around response.json(): the
\* rejection lands in the outer catch block, which reports a connection
\* failure.
JsonRejectOuterCatch(s) ==
    /\ s \in 1..Len(calls)
    /\ calls[s].pc = "json"
    /\ AppendResponse(s,
           createErrorMessage(nextId,
               CatchReason(FALSE, [typeError |-> FALSE, dns |-> FALSE,
                                   failedToFetch |-> FALSE]),
               requestUrl, calls[s].epoch))
    /\ Finally(s)
    /\ last' = Seen("jsonReject", s, 0)
    /\ UNCHANGED <<envVars, mode, inputValue, uiVars, selectedDocs, epoch, docOps>>

\* response.json() rejects (the body is not JSON, or reading it failed):
\* the inner catch block.
JsonReject(s) ==
    /\ s \in 1..Len(calls)
    /\ calls[s].pc = "json"
    /\ AppendResponse(s, createErrorMessage(nextId, ReasonInvalid, requestUrl,
                                      calls[s].epoch))
    /\ Finally(s)
    /\ last' = Seen("jsonReject", s, 0)
    /\ UNCHANGED <<envVars, mode, inputValue, uiVars, selectedDocs, epoch, docOps>>

\* The 15 s timer fires: controller.abort() rejects the pending promise with
\* an AbortError. A pending fetch lands in the outer catch block, a pending
\* response.json() in the inner one.
Timeout(s) ==
    /\ s \in 1..Len(calls)
    /\ calls[s].timer
    /\ calls[s].pc # "done"
    /\ IF calls[s].pc = "fetch"
       THEN AppendResponse(s,
                createErrorMessage(nextId, CatchReason(TRUE, <<>>), requestUrl,
                                      calls[s].epoch))
       ELSE AppendResponse(s,
                createErrorMessage(nextId, ReasonInvalid, requestUrl,
                                      calls[s].epoch))
    /\ Finally(s)
    /\ last' = Seen("timeout", s, calls[s].pc)
    /\ UNCHANGED <<envVars, mode, inputValue, uiVars, selectedDocs, epoch, docOps>>

----------------------------------------------------------------------------
(* The top bar *)

\* clearChat that also resets the loading flag.
clearChatResetsLoading ==
    /\ messages' = <<>>
    /\ isLoading' = FALSE
    /\ last' = Seen("clearChat", 0, 0)
    /\ UNCHANGED <<envVars, mode, inputValue, uiVars, selectedDocs,
                   calls, nextId, trace, epoch, docOps>>

\* clearChat that takes back the last message only.
clearChatDropsLast ==
    /\ messages' = SubSeq(messages, 1, Len(messages) - 1)
    /\ last' = Seen("clearChat", 0, 0)
    /\ UNCHANGED <<envVars, mode, inputValue, isLoading, uiVars, selectedDocs,
                   calls, nextId, trace, epoch, docOps>>

clearChat ==
    /\ messages' = <<>>
    /\ last' = Seen("clearChat", 0, 0)
    /\ UNCHANGED <<envVars, mode, inputValue, isLoading, uiVars, selectedDocs,
                   calls, nextId, trace, epoch, docOps>>

\* resetUiState without setSelectedDocs([]).
resetUiStateKeepsDocs ==
    /\ messages' = <<>>
    /\ selectedDocs' = selectedDocs
    /\ isDrawerOpen' = FALSE
    /\ selectedMenuOpen' = FALSE

resetUiState ==
    /\ messages' = <<>>
    /\ selectedDocs' = <<>>
    /\ isDrawerOpen' = FALSE
    /\ selectedMenuOpen' = FALSE

\* handleModeChange that also ends the wait: a switch resets the loading flag.
handleModeChangeStopsLoading(nextMode) ==
    /\ IF nextMode = mode
       THEN UNCHANGED <<mode, messages, selectedDocs, isDrawerOpen,
                        selectedMenuOpen, epoch, isLoading>>
       ELSE /\ epoch < MaxSwitches
            /\ mode' = nextMode
            /\ resetUiState
            /\ isLoading' = FALSE
            /\ epoch' = epoch + 1
    /\ last' = Seen(IF nextMode = mode THEN "modeSame" ELSE "modeSwitch", 0,
                  nextMode)
    /\ UNCHANGED <<envVars, inputValue, toast, calls, nextId, trace, docOps>>

handleModeChange(nextMode) ==
    /\ IF nextMode = mode
       THEN UNCHANGED <<mode, messages, selectedDocs, isDrawerOpen,
                        selectedMenuOpen, epoch>>
       ELSE /\ epoch < MaxSwitches
            /\ mode' = nextMode
            /\ resetUiState
            /\ epoch' = epoch + 1
    /\ last' = Seen(IF nextMode = mode THEN "modeSame" ELSE "modeSwitch", 0,
                  nextMode)
    /\ UNCHANGED <<envVars, inputValue, isLoading, toast, calls, nextId,
                   trace, docOps>>

----------------------------------------------------------------------------
(* The context bar, the drawer and the toast *)

\* OpenDrawer from a button that is rendered in every mode.
OpenDrawerAnyMode ==
    /\ ~isDrawerOpen
    /\ isDrawerOpen' = TRUE
    /\ last' = SeenUi
    /\ UNCHANGED <<envVars, mode, chatVars, selectedDocs, selectedMenuOpen,
                   toast, epoch, docOps>>

\* The "choose literature" button of the context bar, rendered in rag mode.
OpenDrawer ==
    /\ mode = "rag"
    /\ ~isDrawerOpen
    /\ isDrawerOpen' = TRUE
    /\ last' = SeenUi
    /\ UNCHANGED <<envVars, mode, chatVars, selectedDocs, selectedMenuOpen,
                   toast, epoch, docOps>>

\* The overlay and the close button of the drawer.
CloseDrawer ==
    /\ isDrawerOpen
    /\ isDrawerOpen' = FALSE
    /\ last' = SeenUi
    /\ UNCHANGED <<envVars, mode, chatVars, selectedDocs, selectedMenuOpen,
                   toast, epoch, docOps>>

\* The dropdown trigger of the context bar, rendered in rag mode.
ToggleSelectedMenu ==
    /\ mode = "rag"
    /\ selectedMenuOpen' = ~selectedMenuOpen
    /\ last' = SeenUi
    /\ UNCHANGED <<envVars, mode, chatVars, selectedDocs, isDrawerOpen,
                   toast, epoch, docOps>>

\* handleKeyDown with the Escape key.
Escape ==
    /\ isDrawerOpen' = FALSE
    /\ selectedMenuOpen' = FALSE
    /\ toast' = NULL
    /\ last' = SeenUi
    /\ UNCHANGED <<envVars, mode, chatVars, selectedDocs, epoch, docOps>>

\* onClick of the toast.
DismissToast ==
    /\ toast # NULL
    /\ toast' = NULL
    /\ last' = SeenUi
    /\ UNCHANGED <<envVars, mode, chatVars, selectedDocs, isDrawerOpen,
                   selectedMenuOpen, epoch, docOps>>

\* ToastExpire whose timer callback leaves the toast as it is.
ToastExpireKeepsToast ==
    /\ toast # NULL
    /\ toast' = toast
    /\ last' = SeenUi
    /\ UNCHANGED <<envVars, mode, chatVars, selectedDocs, isDrawerOpen,
                   selectedMenuOpen, epoch, docOps>>

\* The 5 s timer of the toast effect.
ToastExpire ==
    /\ toast # NULL
    /\ toast' = NULL
    /\ last' = SeenUi
    /\ UNCHANGED <<envVars, mode, chatVars, selectedDocs, isDrawerOpen,
                   selectedMenuOpen, epoch, docOps>>

\* handleDocToggle with the limit tested by > in place of >=.
handleDocToggleOffByOne(doc) ==
    /\ isDrawerOpen
    /\ LET alreadySelected == IsSelected(selectedDocs, doc)
       IN  IF alreadySelected
           THEN /\ selectedDocs' = FilterOut(selectedDocs, doc)
                /\ UNCHANGED toast
           ELSE IF Len(selectedDocs) > DocLimit
           THEN /\ toast' = ToastLimit
                /\ UNCHANGED selectedDocs
           ELSE /\ selectedDocs' =
                       Append(selectedDocs, [id |-> doc, epoch |-> epoch])
                /\ UNCHANGED toast
    /\ last' = SeenToggle(doc)
    /\ UNCHANGED <<envVars, mode, chatVars, isDrawerOpen, selectedMenuOpen,
                   epoch>>

\* handleDocToggle that makes room at the limit: the oldest document of a
\* full selection is dropped for the new one.
handleDocToggleEvicting(doc) ==
    /\ isDrawerOpen
    /\ LET alreadySelected == IsSelected(selectedDocs, doc)
       IN  IF alreadySelected
           THEN /\ selectedDocs' = FilterOut(selectedDocs, doc)
                /\ UNCHANGED toast
           ELSE IF Len(selectedDocs) >= DocLimit
           THEN /\ selectedDocs' =
                       Append(Tail(selectedDocs), [id |-> doc, epoch |-> epoch])
                /\ UNCHANGED toast
           ELSE /\ selectedDocs' =
                       Append(selectedDocs, [id |-> doc, epoch |-> epoch])
                /\ UNCHANGED toast
    /\ last' = SeenToggle(doc)
    /\ UNCHANGED <<envVars, mode, chatVars, isDrawerOpen, selectedMenuOpen,
                   epoch>>

\* handleDocToggle, reached from a document row of the open drawer. A
\* selected document carries, as history, the mode epoch it was selected in.
handleDocToggle(doc) ==
    /\ isDrawerOpen
    /\ LET alreadySelected == IsSelected(selectedDocs, doc)
       IN  IF alreadySelected
           THEN /\ selectedDocs' = FilterOut(selectedDocs, doc)
                /\ UNCHANGED toast
           ELSE IF Len(selectedDocs) >= DocLimit
           THEN /\ toast' = ToastLimit
                /\ UNCHANGED selectedDocs
           ELSE /\ selectedDocs' =
                       Append(selectedDocs, [id |-> doc, epoch |-> epoch])
                /\ UNCHANGED toast
    /\ last' = SeenToggle(doc)
    /\ UNCHANGED <<envVars, mode, chatVars, isDrawerOpen, selectedMenuOpen,
                   epoch>>

\* onClick of the remove button of a row of the open dropdown.
RemoveDoc(doc) ==
    /\ mode = "rag"
    /\ selectedMenuOpen
    /\ IsSelected(selectedDocs, doc)
    /\ selectedDocs' = FilterOut(selectedDocs, doc)
    /\ last' = Seen("remove", 0, doc)
    /\ UNCHANGED <<envVars, mode, chatVars, uiVars, epoch>>

----------------------------------------------------------------------------
(* The chat specification *)

Resolve ==
    \E s \in 1..MaxSubmits :
        \/ \E status \in Statuses : FetchResolve(s, status)
        \/ \E err \in FetchErrors : FetchReject(s, err)
        \/ \E data \in Bodies : JsonResolve(s, data)
        \/ JsonReject(s)
        \/ Timeout(s)

Next ==
    \/ \E v \in Inputs : SetInputValue(v)
    \/ SubmitIgnored
    \/ SubmitMessage
    \/ Resolve
    \/ clearChat
    \/ \E m \in Modes : handleModeChange(m)
    \/ OpenDrawer
    \/ CloseDrawer
    \/ ToggleSelectedMenu
    \/ Escape
    \/ \E d \in ChatDocIds : handleDocToggle(d) /\ UNCHANGED docOps
    \/ \E d \in ChatDocIds : RemoveDoc(d) /\ UNCHANGED docOps

Spec == Init /\ [][Next]_vars

\* The chat session alone: the composer, the continuations, clearChat and the
\* mode switch. The handlers of the context bar and the drawer touch neither
\* the loading flag nor the suspended calls.
NextChat ==
    \/ \E v \in Inputs : SetInputValue(v)
    \/ SubmitIgnored
    \/ SubmitMessage
    \/ Resolve
    \/ clearChat
    \/ \E m \in Modes : handleModeChange(m)

\* The remote call eventually resolves or fails, and the 15 s timer aborts it
\* otherwise: a continuation of a suspended submitMessage eventually runs.
SpecLive == Init /\ [][NextChat]_vars /\ WF_vars(Resolve)

----------------------------------------------------------------------------
(* The selector specification: the document operations over the whole      *)
(* library, from the states the first documents of the library, toggled in *)
(* order in rag mode, lead to.                                             *)

FirstDocs(k) == [i \in 1..k |-> [id |-> i, epoch |-> 1]]

InitDocs ==
    /\ apiBase = "http://x"
    /\ chatEndpoint = "/api/chat"
    /\ mode = "rag"
    /\ messages = <<>>
    /\ inputValue = <<>>
    /\ isLoading = FALSE
    /\ isDrawerOpen = FALSE
    /\ \E k \in 0..DocLimit : k <= NumDocs /\ selectedDocs = FirstDocs(k)
    /\ selectedMenuOpen = FALSE
    /\ toast = NULL
    /\ calls = <<>>
    /\ nextId = 1
    /\ trace = <<>>
    /\ epoch = 1
    /\ last = SeenUi
    /\ docOps = 0
    /\ ThemeStart(NULL, FALSE)

NextDocs ==
    \/ OpenDrawer
    \/ CloseDrawer
    \/ ToggleSelectedMenu
    \/ Escape
    \/ DismissToast
    \/ ToastExpire
    \/ \E m \in Modes : handleModeChange(m)
    \/ \E d \in DocIds :
           docOps < MaxDocOps /\ handleDocToggle(d) /\ docOps' = docOps + 1
    \/ \E d \in DocIds :
           docOps < MaxDocOps /\ RemoveDoc(d) /\ docOps' = docOps + 1

SpecDocs == InitDocs /\ [][NextDocs]_vars

\* The selector with the 5 s timer of the toast: a timer that is armed fires
\* unless the toast is dismissed first.
SpecToast == InitDocs /\ [][NextDocs]_vars /\ WF_vars(ToastExpire)

----------------------------------------------------------------------------
(* The request specification: the chat session from the states in which    *)
(* documents were toggled on in rag mode, in an order that is not the      *)
(* order of the library.                                                   *)

SendSelections == { <<>>, <<2, 1>>, <<1, 3, 2>> }

InitSend ==
    /\ apiBase = "http://x"
    /\ chatEndpoint = "/api/chat"
    /\ mode = "rag"
    /\ messages = <<>>
    /\ inputValue = <<>>
    /\ isLoading = FALSE
    /\ isDrawerOpen = FALSE
    /\ \E ids \in SendSelections :
           selectedDocs = [i \in 1..Len(ids) |-> [id |-> ids[i], epoch |-> 1]]
    /\ selectedMenuOpen = FALSE
    /\ toast = NULL
    /\ calls = <<>>
    /\ nextId = 1
    /\ trace = <<>>
    /\ epoch = 1
    /\ last = SeenUi
    /\ docOps = 0
    /\ ThemeStart(NULL, FALSE)

SpecSend == InitSend /\ [][NextChat]_vars

----------------------------------------------------------------------------
(* The theme specification: the theme store alone, from every content of   *)
(* the storage and every system preference, under an App that is idle.     *)

InitTheme ==
    /\ apiBase = "http://x"
    /\ chatEndpoint = "/api/chat"
    /\ mode = "gpt"
    /\ messages = <<>>
    /\ inputValue = <<>>
    /\ isLoading = FALSE
    /\ isDrawerOpen = FALSE
    /\ selectedDocs = <<>>
    /\ selectedMenuOpen = FALSE
    /\ toast = NULL
    /\ calls = <<>>
    /\ nextId = 1
    /\ trace = <<>>
    /\ epoch = 0
    /\ last = SeenUi
    /\ \E stored \in StoredValues, prefersDark \in BOOLEAN :
           ThemeStart(stored, prefersDark)
    /\ docOps = 0

NextTheme ==
    \/ toggleTheme
    \/ \E matches \in BOOLEAN : handleChange(matches)

SpecTheme == InitTheme /\ [][NextTheme]_vars

----------------------------------------------------------------------------
(* What the history says about a submission *)

\* The places of the trace where a message of one of the roles was appended
\* for submission s.
Appends(s, roles) ==
    { i \in 1..Len(trace) :
        trace[i].ev = "append" /\ trace[i].sub = s /\ trace[i].role \in roles }

\* The places of the trace where a network call was issued for submission s.
Fetches(s) ==
    { i \in 1..Len(trace) : trace[i].ev = "fetch" /\ trace[i].sub = s }

Responses(s) == Appends(s, {"assistant", "error"})

\* The ids of the messages of the log.
LogIds == { messages[i].id : i \in 1..Len(messages) }

ResolveOps == {"fetchResolve", "fetchReject", "jsonResolve", "jsonReject",
               "timeout"}

----------------------------------------------------------------------------
(* The claims *)

\* C1: every accepted submission gets exactly one response message, either
\* one assistant message or one error message: none while its call is
\* suspended, exactly one once its call has ended, on every path, and no
\* response is ever appended for anything but an accepted submission.
C1_OneResponsePerSubmission ==
    /\ \A s \in 1..Len(calls) :
         LET a == Cardinality(Appends(s, {"assistant"}))
             e == Cardinality(Appends(s, {"error"}))
         IN  IF calls[s].pc = "done" THEN a + e = 1 ELSE a + e = 0
    /\ \A i \in 1..Len(trace) : trace[i].sub \in 1..Len(calls)

\* Two submissions have ended, one with an assistant message and one with an
\* error message.
C1_Witness ==
    \E s, t \in 1..Len(calls) :
        /\ calls[s].pc = "done" /\ calls[t].pc = "done"
        /\ Cardinality(Appends(s, {"assistant"})) = 1
        /\ Cardinality(Appends(t, {"error"})) = 1

\* text is what trim() makes of raw: raw is white space, then text, then
\* white space, and text neither starts nor ends with white space.
IsTrimOf(text, raw) ==
    /\ text # <<>> => (text[1] \notin WhiteSpace /\ text[Len(text)] \notin WhiteSpace)
    /\ \E i \in 0..Len(raw) :
         /\ i + Len(text) <= Len(raw)
         /\ SubSeq(raw, i + 1, i + Len(text)) = text
         /\ \A j \in 1..Len(raw) :
              (j <= i \/ j > i + Len(text)) => raw[j] \in WhiteSpace

\* C2: every accepted submission appends exactly one user message, before
\* its network call is issued and before any response to it is appended,
\* and that message carries the trimmed input.
C2_UserMessageFirst ==
    /\ \A s \in 1..Len(calls) :
         /\ Cardinality(Appends(s, {"user"})) = 1
         /\ \A u \in Appends(s, {"user"}) :
              \A j \in Fetches(s) \cup Responses(s) : u < j
    /\ last.op = "submit" =>
         \E u \in Appends(last.sub, {"user"}) :
             \E i \in 1..Len(messages) :
                 /\ messages[i].id = trace[u].id
                 /\ messages[i].role = "user"
                 /\ messages[i].content # <<>>
                 /\ IsTrimOf(messages[i].content, last.arg)

\* A submission of an input with white space around it has just issued its
\* network call: the log ends with its trimmed user message.
C2_Witness ==
    /\ last.op = "submit"
    /\ last.arg # Trim(last.arg)
    /\ Fetches(last.sub) # {}
    /\ messages # <<>>
    /\ messages[Len(messages)].role = "user"

\* C3: at most one outbound chat request is in flight at any time.
C3_OneInFlight == Cardinality(InFlight) <= 1

\* A second submission is in flight after the first one has ended, and the
\* log was cleared meanwhile.
C3_Witness ==
    /\ Len(calls) = 2
    /\ calls[1].pc = "done"
    /\ calls[2].pc = "json"
    /\ isLoading
    /\ messages = <<>>

\* C4: the selection never holds more than 10 documents, and a toggle of an
\* unselected document while 10 are selected leaves the selection as it is
\* and sets the toast.
C4_SelectionLimit ==
    /\ [](Len(selectedDocs) <= DocLimit)
    /\ [][\A d \in DocIds :
            (handleDocToggle(d) /\ ~IsSelected(selectedDocs, d)
                /\ Len(selectedDocs) = DocLimit)
            => (selectedDocs' = selectedDocs /\ toast' = ToastLimit)]_vars

\* A toggle of an eleventh document has just been rejected.
C4_Witness ==
    /\ last.op = "toggle"
    /\ ~IsSelected(selectedDocs, last.arg)
    /\ Len(selectedDocs) = DocLimit
    /\ toast = ToastLimit

\* C5: a step that changes the mode leaves the message log and the document
\* selection empty.
C5_ModeSwitchResets ==
    [][mode' # mode => (messages' = <<>> /\ selectedDocs' = <<>>)]_vars

\* The mode has just been switched while a request was in flight, the log
\* was not empty and documents were selected.
C5_Witness ==
    /\ last.op = "modeSwitch"
    /\ last.wasLoading /\ last.hadLog /\ last.hadDocs
    /\ InFlight # {}
    /\ messages = <<>>
    /\ selectedDocs = <<>>

\* C6: nothing is carried across modes: every message of the log answers or
\* is a submission made in the current mode epoch, and every selected
\* document was selected in the current mode epoch.
C6_NothingCarriedAcrossModes ==
    /\ \A i \in 1..Len(messages) : messages[i].epoch = epoch
    /\ \A i \in 1..Len(selectedDocs) : selectedDocs[i].epoch = epoch

\* C7 as stated: after clearChat the log is empty and the session is idle.
C7_ClearChatIdle ==
    last.op = "clearChat" => (messages = <<>> /\ ~isLoading)

\* C7 as amended: after clearChat the log is empty and the loading flag is
\* what it was, so the session is idle only if it was idle before.
C7_ClearChatKeepsLoading ==
    last.op = "clearChat" =>
        /\ messages = <<>>
        /\ isLoading = last.wasLoading
        /\ isLoading <=> InFlight # {}

\* clearChat has just run on a log that was not empty while a response was
\* awaited.
C7_Witness ==
    /\ last.op = "clearChat"
    /\ last.wasLoading /\ last.hadLog
    /\ messages = <<>>
    /\ isLoading

\* The user message of submission s is no longer in the log.
Orphaned(s) == \A u \in Appends(s, {"user"}) : trace[u].id \notin LogIds

\* C8: when the call of a submission whose user message has been cleared
\* from the log ends, its one assistant or error message is appended to the
\* log as it is then.
C8_LateResolutionAppends ==
    [][\A s \in 1..Len(calls) :
         (calls[s].pc # "done" /\ calls'[s].pc = "done" /\ Orphaned(s))
         => /\ Len(messages') = Len(messages) + 1
            /\ SubSeq(messages', 1, Len(messages)) = messages
            /\ messages'[Len(messages')].role \in {"assistant", "error"}
            /\ trace' = Append(trace, AppendEvent(s, messages'[Len(messages')]))
      ]_vars

\* A call has just ended in the mode it was submitted in, and its response is
\* the only message of the log: clearChat ran while it was in flight.
C8_Witness ==
    /\ last.op \in ResolveOps
    /\ calls[last.sub].pc = "done"
    /\ Orphaned(last.sub)
    /\ Len(messages) = 1
    /\ messages[1].role \in {"assistant", "error"}
    /\ messages[1].epoch = epoch
    /\ \E r \in Responses(last.sub) : trace[r].id = messages[1].id

\* C9: a session that awaits a response is eventually idle again, and it is
\* idle whenever no call is suspended.
C9_EventuallyIdle ==
    /\ isLoading ~> (~isLoading /\ InFlight = {})
    /\ [](InFlight = {} => ~isLoading)

\* A second submission has just been accepted after the first one, which
\* awaited the remote call, ended with an error.
C9_Witness ==
    /\ last.op = "submit"
    /\ last.sub = 2
    /\ calls[1].pc = "done"
    /\ Fetches(1) # {}
    /\ Appends(1, {"error"}) # {}

\* C10: when response.json() resolves with a non-empty reply, the one
\* response of the submission is an assistant message with that text.
C10_ReplyBecomesAssistantMessage ==
    (/\ last.op = "jsonResolve"
     /\ ~last.arg.isNull
     /\ last.arg.reply # <<>>
     /\ last.arg.reply[1] # <<>>)
    => /\ messages # <<>>
       /\ messages[Len(messages)].role = "assistant"
       /\ messages[Len(messages)].content = last.arg.reply[1]
       /\ Appends(last.sub, {"error"}) = {}
       /\ \E a \in Appends(last.sub, {"assistant"}) :
            /\ Appends(last.sub, {"assistant"}) = {a}
            /\ trace[a].id = messages[Len(messages)].id

\* The scenario of the specification: the log is the user message followed
\* by the assistant message that carries the reply.
C10_Witness ==
    /\ last.op = "jsonResolve"
    /\ Len(messages) = 2
    /\ messages[1].role = "user"
    /\ messages[1].content = <<"h">>
    /\ messages[2].role = "assistant"
    /\ messages[2].content = <<"o", "k">>

\* C11: when response.json() rejects, or resolves with a body that is null,
\* has no reply field or has an empty reply, the one response of the
\* submission is an error message with the invalid-response reason, and no
\* assistant message is appended for it.
C11_InvalidResponseIsError ==
    (\/ last.op = "jsonReject"
     \/ /\ last.op = "jsonResolve"
        /\ \/ last.arg.isNull
           \/ last.arg.reply = <<>>
           \/ last.arg.reply = << <<>> >>)
    => /\ messages # <<>>
       /\ messages[Len(messages)].role = "error"
       /\ messages[Len(messages)].content = ReasonInvalid
       /\ Appends(last.sub, {"assistant"}) = {}
       /\ \E e \in Appends(last.sub, {"error"}) :
            /\ Appends(last.sub, {"error"}) = {e}
            /\ trace[e].id = messages[Len(messages)].id

\* The body of a 2xx response parsed to an object with an empty reply, and
\* the log is the user message followed by the invalid-response error.
C11_Witness ==
    /\ last.op = "jsonResolve"
    /\ ~last.arg.isNull
    /\ last.arg.reply = << <<>> >>
    /\ Len(messages) = 2
    /\ messages[1].role = "user"
    /\ messages[2].role = "error"
    /\ messages[2].content = ReasonInvalid

\* C12: when the API base or the chat path is unset, the session is never
\* awaiting a response, no network call is ever issued, every accepted
\* submission appends its user message immediately followed by exactly one
\* error message and nothing else, and right after a submission the log ends
\* with that user message and an error with the not-configured reason.
C12_NotConfiguredFailsFast ==
    (apiBase = "" \/ chatEndpoint = "")
    => /\ ~isLoading
       /\ InFlight = {}
       /\ \A i \in 1..Len(trace) : trace[i].ev # "fetch"
       /\ \A s \in 1..Len(calls) :
            /\ Appends(s, {"assistant"}) = {}
            /\ \E u \in Appends(s, {"user"}) :
                 /\ Appends(s, {"user"}) = {u}
                 /\ Appends(s, {"error"}) = {u + 1}
       /\ last.op = "submit"
          => /\ Len(messages) >= 2
             /\ messages[Len(messages) - 1].role = "user"
             /\ messages[Len(messages) - 1].content # <<>>
             /\ messages[Len(messages)].role = "error"
             /\ messages[Len(messages)].content = ReasonNotConfigured
             /\ messages[Len(messages)].meta = UrlNotSet

\* The scenario of the specification: the base is unset, "h" has just been
\* submitted, and the log is the user message and the not-configured error.
C12_Witness ==
    /\ apiBase = ""
    /\ chatEndpoint # ""
    /\ last.op = "submit"
    /\ Len(messages) = 2
    /\ messages[1].role = "user"
    /\ messages[1].content = <<"h">>
    /\ messages[2].content = ReasonNotConfigured
    /\ ~isLoading

\* C13: every entry of the messages array of the request of every call in
\* flight has role user or assistant: no error-role entry of the log is sent.
C13_PayloadRolesUserOrAssistant ==
    \A s \in InFlight :
        \A r \in 1..Len(calls[s].request) :
            \A i \in 1..Len(calls[s].request[r].messages) :
                calls[s].request[r].messages[i].role \in {"user", "assistant"}

\* C14: right after a submission is accepted and its call issued, the mode
\* field of its request is the current mode, and its selected_documents is
\* empty in gpt mode and, in rag mode, has one entry per selected document:
\* the i-th entry is the id of the i-th document of the selection.
C14_RequestCarriesModeAndSelection ==
    (last.op = "submit" /\ last.sub \in InFlight)
    => LET req == calls[last.sub].request[1]
       IN  /\ req.mode = mode
           /\ mode = "gpt" => req.selected_documents = <<>>
           /\ mode = "rag"
              => /\ Len(req.selected_documents) = Len(selectedDocs)
                 /\ \A i \in 1..Len(selectedDocs) :
                        req.selected_documents[i] = selectedDocs[i].id

\* A rag submission is in flight with document 2 selected before document 1,
\* and its request lists them in that order.
C14_Witness ==
    /\ last.op = "submit"
    /\ last.sub \in InFlight
    /\ mode = "rag"
    /\ DocIdsOf(selectedDocs) = <<2, 1>>
    /\ calls[last.sub].request[1].mode = "rag"
    /\ calls[last.sub].request[1].selected_documents = <<2, 1>>

\* C15: when the 15 s timer of a submission has just fired, the one response
\* of that submission is an error message with the timeout reason and no
\* assistant message was appended for it; and the timer of a call that has
\* ended is cancelled, so that it fires for the call it was armed for only.
C15_TimeoutIsTimeoutError ==
    /\ last.op = "timeout"
       => /\ messages # <<>>
          /\ messages[Len(messages)].role = "error"
          /\ messages[Len(messages)].content = ReasonTimeout
          /\ Appends(last.sub, {"assistant"}) = {}
          /\ \E e \in Appends(last.sub, {"error"}) :
               /\ Appends(last.sub, {"error"}) = {e}
               /\ trace[e].id = messages[Len(messages)].id
          /\ calls[last.sub].pc = "done"
    /\ \A s \in 1..Len(calls) : calls[s].pc = "done" => ~calls[s].timer

\* C16: when fetch has just resolved with a status outside 200..299, the one
\* response of the submission is an error message that names that status, no
\* assistant message was appended for it, and its call has ended without
\* awaiting response.json().
C16_HttpErrorIsError ==
    (last.op = "fetchResolve" /\ (last.arg < 200 \/ last.arg > 299))
    => /\ messages # <<>>
       /\ messages[Len(messages)].role = "error"
       /\ messages[Len(messages)].content =
              <<"API server returned HTTP", ToString(last.arg)>>
       /\ Appends(last.sub, {"assistant"}) = {}
       /\ \E e \in Appends(last.sub, {"error"}) :
            /\ Appends(last.sub, {"error"}) = {e}
            /\ trace[e].id = messages[Len(messages)].id
       /\ calls[last.sub].pc = "done"
       /\ ~isLoading

\* The scenario of the specification: the server answered HTTP 500 and the
\* log is the user message followed by the error that names status 500.
C16_Witness ==
    /\ last.op = "fetchResolve"
    /\ last.arg = 500
    /\ Len(messages) = 2
    /\ messages[1].role = "user"
    /\ messages[2].role = "error"
    /\ messages[2].content = ReasonHttp(500)

\* C17: when handleDocToggle runs for a document right after it ran for the
\* same document, the set of selected ids is again what it was before the
\* first of the two runs, whether the document was selected, was unselected
\* with room left, or was unselected with the selection full.
C17_ToggleTwiceRestores ==
    [][(/\ last.op = "toggle"
        /\ last'.op = "toggle"
        /\ last'.arg = last.arg)
       => { selectedDocs'[i].id : i \in 1..Len(selectedDocs') } = last.docs]_vars

\* Document 1, selected first of three, has been toggled twice in succession:
\* it is selected again, now as the newest document.
C17_Witness ==
    /\ last.op = "toggle"
    /\ last.arg = 1
    /\ last.docs = {2, 3}
    /\ docOps = 2
    /\ DocIdsOf(selectedDocs) = <<2, 3, 1>>

\* C18: no call is ever issued again: every accepted submission has issued
\* exactly one network call when the URL is configured (and none otherwise),
\* and a network call is issued by no step but the one that accepts a
\* submission, in particular by no step that reports a failure or a timeout.
C18_NoRetries ==
    /\ [](\A s \in 1..Len(calls) :
             Cardinality(Fetches(s)) =
                 IF apiBase # "" /\ chatEndpoint # "" THEN 1 ELSE 0)
    /\ [][Len(trace') > Len(trace)
          => \A i \in (Len(trace) + 1)..Len(trace') :
                 trace'[i].ev = "fetch"
                 => /\ last'.op = "submit"
                    /\ Len(calls') = Len(calls) + 1
                    /\ trace'[i].sub = Len(calls')]_vars

\* The one call of the first submission was rejected or timed out, its error
\* was reported, and the session is idle with no second call issued.
C18_Witness ==
    /\ last.op \in {"fetchReject", "timeout"}
    /\ last.sub = 1
    /\ calls[1].pc = "done"
    /\ Cardinality(Fetches(1)) = 1
    /\ Appends(1, {"error"}) # {}
    /\ ~isLoading
    /\ InFlight = {}

\* C19: a submit attempt is ignored exactly when the input holds nothing but
\* white space or a response is awaited, and an ignored attempt changes
\* neither the log, the input, the loading flag, the selection nor the mode,
\* and issues no network call; an attempt is accepted only when the input
\* holds a character that is not white space and no response is awaited.
C19_IgnoredSubmitIsNoOp ==
    [][/\ last'.op = "submitIgnored"
          => /\ \/ isLoading
                \/ \A i \in 1..Len(inputValue) : inputValue[i] \in WhiteSpace
             /\ messages' = messages
             /\ inputValue' = inputValue
             /\ isLoading' = isLoading
             /\ selectedDocs' = selectedDocs
             /\ mode' = mode
             /\ calls' = calls
             /\ trace' = trace
       /\ last'.op = "submit"
          => /\ ~isLoading
             /\ \E i \in 1..Len(inputValue) : inputValue[i] \notin WhiteSpace
      ]_vars

\* A submit attempt with white space only in the input box has just been
\* ignored: the input is still there, after an earlier submission was
\* answered.
C19_Witness ==
    /\ last.op = "submitIgnored"
    /\ last.arg = <<" ", "\t">>
    /\ inputValue = <<" ", "\t">>
    /\ ~isLoading
    /\ Len(messages) = 2
    /\ Len(calls) = 1

\* rest is docs with its one entry of the id taken out and every other entry
\* left where it was relative to the others.
IsWithout(rest, docs, id) ==
    /\ \A i \in 1..Len(rest) : rest[i].id # id
    /\ \E k \in 1..Len(docs) :
         /\ docs[k].id = id
         /\ rest = SubSeq(docs, 1, k - 1) \o SubSeq(docs, k + 1, Len(docs))

\* C20: the selection never holds an id twice; a toggle of an unselected
\* document with room left appends it at the end and leaves the others as
\* they are; a toggle of a selected document and a remove delete the entry of
\* that id and nothing else, the others keeping their order; and filtering
\* out an id that is not selected gives the selection back unchanged.
C20_SelectionIsOrderedSet ==
    /\ [](\A i, j \in 1..Len(selectedDocs) :
             selectedDocs[i].id = selectedDocs[j].id => i = j)
    /\ [](\A d \in DocIds :
             (\A i \in 1..Len(selectedDocs) : selectedDocs[i].id # d)
             => FilterOut(selectedDocs, d) = selectedDocs)
    /\ [][last'.op = "toggle"
          => LET d == last'.arg
                 n == Len(selectedDocs)
             IN  IF \E i \in 1..n : selectedDocs[i].id = d
                 THEN IsWithout(selectedDocs', selectedDocs, d)
                 ELSE IF n < DocLimit
                 THEN /\ Len(selectedDocs') = n + 1
                      /\ SubSeq(selectedDocs', 1, n) = selectedDocs
                      /\ selectedDocs'[n + 1].id = d
                 ELSE selectedDocs' = selectedDocs]_vars
    /\ [][last'.op = "remove"
          => IsWithout(selectedDocs', selectedDocs, last'.arg)]_vars

\* Document 2, the second of three selected, has just been removed from the
\* dropdown: documents 1 and 3 are left, in that order.
C20_Witness ==
    /\ last.op = "remove"
    /\ last.arg = 2
    /\ docOps = 1
    /\ DocIdsOf(selectedDocs) = <<1, 3>>

\* C21: a toast that is shown is eventually cleared, and a step sets the
\* toast only if it is a toggle of an unselected document while the
\* selection is full, which leaves the selection as it is.
C21_ToastTransient ==
    /\ (toast # NULL) ~> (toast = NULL)
    /\ [][(toast' # NULL /\ toast' # toast)
          => /\ last'.op = "toggle"
             /\ \A i \in 1..Len(selectedDocs) :
                    selectedDocs[i].id # last'.arg
             /\ Len(selectedDocs) = DocLimit
             /\ selectedDocs' = selectedDocs
             /\ toast' = ToastLimit]_vars

\* The one document operation so far left the full selection as it was, so
\* it was a rejected toggle that set the toast, and the toast is gone again.
C21_Witness ==
    /\ docOps = 1
    /\ DocIdsOf(selectedDocs) = [i \in 1..DocLimit |-> i]
    /\ last.op = "ui"
    /\ toast = NULL

\* C22 as stated: every error message of the log has a reason and carries in
\* meta the URL its request was attempted against, the base followed by the
\* path, whatever the class of the error.
C22_ErrorCarriesUrl ==
    \A i \in 1..Len(messages) :
        messages[i].role = "error"
        => /\ messages[i].content # <<>>
           /\ messages[i].meta = apiBase \o chatEndpoint

\* C22 as amended: every error message of the log has a reason; its meta is
\* the URL of the request, the base followed by the path, when both are set,
\* and the fixed text that says no URL is set when either is unset.
C22_ErrorCarriesUrlOrPlaceholder ==
    \A i \in 1..Len(messages) :
        messages[i].role = "error"
        => /\ messages[i].content # <<>>
           /\ messages[i].meta =
                  IF apiBase # "" /\ chatEndpoint # ""
                  THEN apiBase \o chatEndpoint
                  ELSE "URL is not set"

\* The log holds a not-configured error, whose meta is the fixed text, after
\* a submission with the path unset.
C22_Witness ==
    /\ apiBase # ""
    /\ chatEndpoint = ""
    /\ Len(messages) = 2
    /\ messages[2].role = "error"
    /\ messages[2].content = ReasonNotConfigured
    /\ messages[2].meta = UrlNotSet

\* C23: the messages array of the request a step issues has one entry for
\* each message the log held before the step, its role and its content, in
\* the order of the log, followed by one last entry, the user message with
\* the trimmed input; and no step changes the request of a call that stays
\* in flight, whatever it does to the log.
C23_RequestCarriesLog ==
    /\ [][(last'.op = "submit" /\ Len(calls') \in InFlight')
          => LET sent == calls'[Len(calls')].request[1].messages
                 n == Len(messages)
             IN  /\ Len(calls') = Len(calls) + 1
                 /\ Len(sent) = n + 1
                 /\ \A i \in 1..n :
                        sent[i] = [role |-> messages[i].role,
                                   content |-> messages[i].content]
                 /\ sent[n + 1].role = "user"
                 /\ IsTrimOf(sent[n + 1].content, inputValue)]_vars
    /\ [][\A s \in InFlight :
             calls'[s].pc # "done" => calls'[s].request = calls[s].request]_vars

\* The log was cleared while the second submission was in flight, and its
\* request still carries the three messages the log held when it was issued.
C23_Witness ==
    /\ last.op = "clearChat"
    /\ 2 \in InFlight
    /\ messages = <<>>
    /\ Len(calls[2].request[1].messages) = 3
    /\ calls[2].request[1].messages[2].role = "assistant"
    /\ calls[2].request[1].messages[3].role = "user"

\* C24 as stated: a step of any handler but clearChat and a switch of mode
\* leaves the log it found as a prefix of the new log, and appends at most
\* one message to it.
C24_AppendOnlyOneAtATime ==
    [][last'.op \notin {"clearChat", "modeSwitch"}
       => /\ Len(messages') >= Len(messages)
          /\ SubSeq(messages', 1, Len(messages)) = messages
          /\ Len(messages') <= Len(messages) + 1]_vars

\* C24 as amended: a step of any handler but clearChat and a switch of mode
\* leaves the log it found as a prefix of the new log; it appends at most one
\* message, except for an accepted submission with the base or the path
\* unset, which appends exactly two, the user message and the error.
C24_AppendOnly ==
    [][last'.op \notin {"clearChat", "modeSwitch"}
       => /\ Len(messages') >= Len(messages)
          /\ SubSeq(messages', 1, Len(messages)) = messages
          /\ IF last'.op = "submit" /\ (apiBase = "" \/ chatEndpoint = "")
             THEN /\ Len(messages') = Len(messages) + 2
                  /\ messages'[Len(messages) + 1].role = "user"
                  /\ messages'[Len(messages) + 2].role = "error"
             ELSE Len(messages') <= Len(messages) + 1]_vars

\* With the base unset, a second submission has just appended its two
\* messages after the two of the first.
C24_Witness ==
    /\ apiBase = ""
    /\ last.op = "submit"
    /\ last.sub = 2
    /\ last.hadLog
    /\ Len(messages) = 4
    /\ messages[3].role = "user"
    /\ messages[4].role = "error"

\* C25: a change of the system preference sets the theme to the system value
\* when the page was loaded with no theme in the storage and the user has
\* not toggled the theme since, and leaves the theme as it is otherwise.
C25_SystemFollowedUntilChoice ==
    [][(/\ Len(themeLog') = Len(themeLog) + 1
        /\ themeLog'[Len(themeLog')].ev = "system")
       => IF /\ themeLog[1].stored \notin {"light", "dark"}
             /\ \A i \in 1..Len(themeLog) : themeLog[i].ev # "toggle"
          THEN theme' = IF systemDark' THEN "dark" ELSE "light"
          ELSE theme' = theme]_vars

\* C26: the loading flag is set exactly when a call of submitMessage is
\* suspended at one of its awaits, and no step of clearChat, of
\* handleModeChange, of handleDocToggle or of the remove button changes it.
C26_LoadingIffInFlight ==
    /\ [](isLoading <=> \E s \in 1..Len(calls) : calls[s].pc \in {"fetch", "json"})
    /\ [][last'.op \in {"clearChat", "modeSwitch", "modeSame", "toggle",
                        "remove"}
          => isLoading' = isLoading]_vars

\* The mode was switched to rag and a document toggled on while the call of
\* the first submission is still suspended: the session is still loading.
C26_Witness ==
    /\ last.op = "toggle"
    /\ last.wasLoading
    /\ isLoading
    /\ mode = "rag"
    /\ selectedDocs # <<>>
    /\ calls[1].pc = "fetch"

\* C27: of two adjacent messages of the log, exactly one is a user message:
\* no user message follows a user message, and no assistant or error message
\* follows an assistant or error message.
C27_RolesAlternate ==
    \A i \in 1..(Len(messages) - 1) :
        (messages[i].role = "user") # (messages[i + 1].role = "user")

\* The log was cleared while the first call was suspended, its response came
\* afterwards, and a second exchange followed: the log starts with a
\* response and still alternates.
C27_Witness ==
    /\ Len(messages) = 3
    /\ messages[1].role \in {"assistant", "error"}
    /\ messages[2].role = "user"
    /\ messages[3].role \in {"assistant", "error"}
    /\ last.op \in ResolveOps

\* C28: in gpt mode no document is selected and the drawer is closed; a
\* document is toggled or removed in rag mode only; a step opens the drawer
\* in rag mode only and every step that changes the mode leaves it closed;
\* and handleModeChange to the current mode changes nothing of the state of
\* App.
C28_GptHasNoSelection ==
    /\ [](mode = "gpt" => (selectedDocs = <<>> /\ ~isDrawerOpen))
    /\ [][/\ last'.op \in {"toggle", "remove"} => mode = "rag" /\ mode' = "rag"
          /\ (isDrawerOpen' /\ ~isDrawerOpen) => mode = "rag" /\ mode' = "rag"
          /\ mode' # mode => ~isDrawerOpen'
          /\ last'.op = "modeSame"
             => /\ last'.arg = mode
                /\ UNCHANGED <<mode, messages, inputValue, isLoading,
                               isDrawerOpen, selectedDocs, selectedMenuOpen,
                               toast, calls>>]_vars

\* Back in gpt mode from rag mode, where a document was selected: the switch
\* left the selection empty and the drawer closed.
C28_Witness ==
    /\ mode = "gpt"
    /\ epoch = 2
    /\ last.op = "modeSwitch"
    /\ last.arg = "gpt"
    /\ last.hadDocs
    /\ ~last.wasLoading
    /\ selectedDocs = <<>>
    /\ ~isDrawerOpen

====
